---- MODULE Spec2Model ----
(***************************************************************************)
(* Model of whisper-worker/app.py: the idle auto-shutdown timer            *)
(* (reset_shutdown_timer, schedule_shutdown, load_model), the /health and  *)
(* /transcribe handlers, and the transcript renderers (generate_srt,       *)
(* generate_vtt, format_timestamp_srt, format_timestamp_vtt).              *)
(*                                                                         *)
(* Time is a discrete clock `now`.  A threading.Timer is a record with the *)
(* position of its thread: it waits until its deadline or until cancel()   *)
(* sets its `finished` event, tests the event, and only then runs the      *)
(* shutdown callback, which sends SIGTERM (counted in `kills`).            *)
(*                                                                         *)
(* Text is a sequence of one-character strings, so that strip() and        *)
(* "\n".join() are computed character by character.  A float number of     *)
(* seconds is named by an integer t of milliseconds and stands for the     *)
(* IEEE double nearest to t/1000; the roundings of the formatters' float   *)
(* arithmetic are computed on integers.                                    *)
(***************************************************************************)
EXTENDS Integers, Sequences, FiniteSets, TLC

VARIABLES
    now,                \* wall clock, time.time()
    model,              \* app.py:21   TRUE when the Whisper model is loaded
    startup,            \* position of the startup hook load_model
    last_request_time,  \* app.py:25
    shutdown_timer,     \* app.py:26   0 is None, otherwise a timer id
    shutdown_lock,      \* app.py:27   0 is free, otherwise the holder
    timers,             \* the threading.Timer objects ever created
    kills,              \* number of os.kill(os.getpid(), SIGTERM) issued
    req,                \* the request handlers in flight
    files,              \* temporary files on disk, by handler slot
    leaked,             \* temporary files left on disk by ended requests
    lastActivity,       \* history: time of the last arming or reset
    arrivals,           \* history: number of requests received
    rin,                \* input of a renderer call
    rout                \* output of a renderer call

vars == <<now, model, startup, last_request_time, shutdown_timer,
          shutdown_lock, timers, kills, req, files, leaked,
          lastActivity, arrivals, rin, rout>>

watchdogVars == <<last_request_time, shutdown_timer, shutdown_lock, timers,
                  kills, lastActivity>>
renderVars == <<rin, rout>>

----------------------------------------------------------------------------
(* Bounds *)

MaxTime == 3
MaxRequests == 2
NReq == 2
MaxTimers == 2

IDLE_TIMEOUT == 2

Reqs == 1..NReq
TimerIds == 1..MaxTimers
StartupId == NReq + 1

----------------------------------------------------------------------------
(* Text and numbers *)

Whitespace == {" ", "\t", "\n"}

RECURSIVE LStrip(_)
LStrip(s) ==
    IF s # <<>> /\ Head(s) \in Whitespace THEN LStrip(Tail(s)) ELSE s

RECURSIVE RStrip(_)
RStrip(s) ==
    IF s # <<>> /\ s[Len(s)] \in Whitespace
    THEN RStrip(SubSeq(s, 1, Len(s) - 1)) ELSE s

\* str.strip()
Strip(s) == RStrip(LStrip(s))

\* sep.join(lines)
RECURSIVE Join(_, _)
Join(sep, lines) ==
    IF lines = <<>> THEN <<>>
    ELSE IF Len(lines) = 1 THEN lines[1]
    ELSE lines[1] \o sep \o Join(sep, Tail(lines))

DigitChar(d) == <<"0", "1", "2", "3", "4", "5", "6", "7", "8", "9">>[d + 1]

\* decimal digits of n >= 0
RECURSIVE Digits(_)
Digits(n) ==
    IF n < 10 THEN <<DigitChar(n)>>
    ELSE Digits(n \div 10) \o <<DigitChar(n % 10)>>

RECURSIVE ZeroFill(_, _)
ZeroFill(s, w) == IF Len(s) >= w THEN s ELSE ZeroFill(<<"0">> \o s, w)

\* f"{n:0wd}": at least w characters, the sign counted in the width
FormatInt(n, w) ==
    IF n < 0 THEN <<"-">> \o ZeroFill(Digits(-n), w - 1)
    ELSE ZeroFill(Digits(n), w)

\* f"{i}"
Str(n) == IF n < 0 THEN <<"-">> \o Digits(-n) ELSE Digits(n)

----------------------------------------------------------------------------
(* Timestamp formatters *)

\* The float x = t/1000.0 is t/1000 rounded to 53 significant bits, so it
\* differs from t/1000 by less than 2^-40; its floor, and the floors of its
\* remainders by 60 and 3600, are those of t/1000.
WholeSeconds(seconds) == seconds \div 1000

\* hours = int(seconds // 3600)
Hours(seconds) == WholeSeconds(seconds) \div 3600

\* minutes = int((seconds % 3600) // 60)
Minutes(seconds) == (WholeSeconds(seconds) % 3600) \div 60

\* secs = int(seconds % 60)
Secs(seconds) == WholeSeconds(seconds) % 60

\* the fraction bits of a double
MantissaBits == 52

RECURSIVE Pow2Mod(_, _)
Pow2Mod(k, m) == IF k = 0 THEN 1 % m ELSE (2 * Pow2Mod(k - 1, m)) % m

RECURSIVE ILog2(_)
ILog2(n) == IF n < 2 THEN 0 ELSE 1 + ILog2(n \div 2)

\* the binary exponent of t/1000, t >= 1: the e with 2^e <= t/1000 < 2^(e+1)
RECURSIVE ExponentDown(_, _)
ExponentDown(t, e) == IF t * 2 ^ e >= 1000 THEN -e ELSE ExponentDown(t, e + 1)

Exponent(t) ==
    IF t >= 1000 THEN ILog2(t \div 1000) ELSE ExponentDown(t, 1)

\* whether the product frac * 1000, which is g - d / 2^k exactly (g whole,
\* 0 < d < 500, 2^-k the spacing of the doubles around the input), rounds
\* to the double g: it does when d / 2^k is at most half the spacing of
\* the doubles below g
RoundsBackTo(g, d, exponent) ==
    LET below == IF 2 ^ ILog2(g) = g THEN ILog2(g) - 1 ELSE ILog2(g)
        shift == below - exponent - 1
    IN \/ shift >= 9
       \/ shift >= 0 /\ d <= 2 ^ shift

\* millis = int((seconds % 1) * 1000)
\* seconds % 1 is exact; it is f/1000 plus the rounding error of the input,
\* and the product by 1000 is rounded once more.  When the input was
\* rounded down far enough the product is below f and truncates to f - 1.
\* (Inputs between -1 and 0 that are not multiples of 1/8 s take one more
\* rounding, in seconds % 1, which is not computed here.)
Millis(seconds) ==
    LET a == IF seconds < 0 THEN -seconds ELSE seconds
        f == a % 1000
        g == IF seconds < 0 THEN 1000 - f ELSE f
        exponent == Exponent(a)
        r == (f * Pow2Mod(MantissaBits - exponent, 1000)) % 1000
        low == IF seconds < 0 THEN r > 500 ELSE r > 0 /\ r < 500
        d == IF seconds < 0 THEN 1000 - r ELSE r
    IN IF f = 0 THEN 0
       ELSE IF ~low THEN g
       ELSE IF RoundsBackTo(g, d, exponent) THEN g
       ELSE g - 1

format_timestamp_srt(seconds) ==
    FormatInt(Hours(seconds), 2) \o <<":">> \o FormatInt(Minutes(seconds), 2)
        \o <<":">> \o FormatInt(Secs(seconds), 2) \o <<",">>
        \o FormatInt(Millis(seconds), 3)

\* a formatter that does not pad the milliseconds
format_timestamp_vtt_unpadded(seconds) ==
    FormatInt(Hours(seconds), 2) \o <<":">> \o FormatInt(Minutes(seconds), 2)
        \o <<":">> \o FormatInt(Secs(seconds), 2) \o <<".">>
        \o Str(Millis(seconds))

format_timestamp_vtt(seconds) ==
    FormatInt(Hours(seconds), 2) \o <<":">> \o FormatInt(Minutes(seconds), 2)
        \o <<":">> \o FormatInt(Secs(seconds), 2) \o <<".">>
        \o FormatInt(Millis(seconds), 3)

----------------------------------------------------------------------------
(* Renderers *)

Arrow == <<" ", "-", "-", ">", " ">>
WEBVTT == <<"W", "E", "B", "V", "T", "T">>

RECURSIVE SrtLines(_, _)
SrtLines(segments, i) ==
    IF segments = <<>> THEN <<>>
    ELSE LET segment == Head(segments)
             start_time == format_timestamp_srt(segment.start)
             end_time == format_timestamp_srt(segment.end)
             text == Strip(segment.text)
         IN <<Str(i), start_time \o Arrow \o end_time, text, <<>>>>
                \o SrtLines(Tail(segments), i + 1)

\* a renderer that numbers the captions from 0
generate_srt_from_zero(result) == Join(<<"\n">>, SrtLines(result.segments, 0))

generate_srt(result) == Join(<<"\n">>, SrtLines(result.segments, 1))

RECURSIVE VttLines(_)
VttLines(segments) ==
    IF segments = <<>> THEN <<>>
    ELSE LET segment == Head(segments)
             start_time == format_timestamp_vtt(segment.start)
             end_time == format_timestamp_vtt(segment.end)
             text == Strip(segment.text)
         IN <<start_time \o Arrow \o end_time, text, <<>>>>
                \o VttLines(Tail(segments))

generate_vtt(result) ==
    Join(<<"\n">>, <<WEBVTT, <<>>>> \o VttLines(result.segments))

\* a dispatch that rejects the formats it does not know
FormatResponseStrict(result, response_format) ==
    CASE response_format = "json" -> [text |-> result.text]
      [] response_format = "text" -> [text |-> result.text]
      [] response_format = "verbose_json" -> result
      [] response_format = "srt" ->
            [text |-> generate_srt(result), format |-> "srt"]
      [] response_format = "vtt" ->
            [text |-> generate_vtt(result), format |-> "vtt"]
      [] OTHER -> [error |-> "unsupported response_format"]

\* the content of the JSONResponse chosen by response_format
FormatResponse(result, response_format) ==
    CASE response_format = "json" -> [text |-> result.text]
      [] response_format = "text" -> [text |-> result.text]
      [] response_format = "verbose_json" -> result
      [] response_format = "srt" ->
            [text |-> generate_srt(result), format |-> "srt"]
      [] response_format = "vtt" ->
            [text |-> generate_vtt(result), format |-> "vtt"]
      [] OTHER -> result

----------------------------------------------------------------------------
(* threading.Timer *)

NoTimer == [st |-> "none", deadline |-> 0, finished |-> FALSE,
            idleAtWake |-> 0, firedAt |-> 0]

\* threading.Timer(interval, function) followed by start()
NewTimer(interval) ==
    [st |-> "waiting", deadline |-> now + interval, finished |-> FALSE,
     idleAtWake |-> 0, firedAt |-> 0]

\* Timer.cancel(): sets the finished event; a timer whose thread already
\* passed its test of the event is not stopped by it.
Cancel(ts, t) == [ts EXCEPT ![t].finished = TRUE]

Pending(t) == timers[t].st = "waiting" /\ ~timers[t].finished

PendingTimers == {t \in TimerIds : Pending(t)}

FreeTimers == {t \in TimerIds : timers[t].st = "none"}

\* Timer.run, first half: finished.wait(interval) returns when the event is
\* set or the interval has elapsed; the callback runs only if the event is
\* not set.
TimerWake(t) ==
    /\ timers[t].st = "waiting"
    /\ timers[t].finished \/ now >= timers[t].deadline
    /\ timers' = [timers EXCEPT
                    ![t].st = IF timers[t].finished THEN "exited" ELSE "running",
                    ![t].idleAtWake = IF timers[t].finished THEN 0
                                      ELSE now - lastActivity]
    /\ UNCHANGED <<now, model, startup, last_request_time, shutdown_timer,
                   shutdown_lock, kills, req, files, leaked, lastActivity,
                   arrivals, rin, rout>>

\* the callback shutdown(): os.kill(os.getpid(), signal.SIGTERM)
TimerShutdown(t) ==
    /\ timers[t].st = "running"
    /\ kills' = kills + 1
    /\ timers' = [timers EXCEPT ![t].st = "fired", ![t].finished = TRUE,
                                ![t].firedAt = now]
    /\ UNCHANGED <<now, model, startup, last_request_time, shutdown_timer,
                   shutdown_lock, req, files, leaked, lastActivity,
                   arrivals, rin, rout>>

----------------------------------------------------------------------------
(* schedule_shutdown, called by the startup hook *)

ScheduleAcquire ==
    /\ startup = "loaded"
    /\ shutdown_lock = 0
    /\ shutdown_lock' = StartupId
    /\ startup' = "scheduling"
    /\ UNCHANGED <<now, model, last_request_time, shutdown_timer, timers,
                   kills, req, files, leaked, lastActivity, arrivals,
                   rin, rout>>

ScheduleBody ==
    /\ startup = "scheduling"
    /\ shutdown_lock = StartupId
    /\ FreeTimers # {}
    /\ LET t == CHOOSE x \in FreeTimers : \A y \in FreeTimers : x <= y
           cancelled == IF shutdown_timer # 0
                        THEN Cancel(timers, shutdown_timer) ELSE timers
       IN /\ timers' = [cancelled EXCEPT ![t] = NewTimer(IDLE_TIMEOUT)]
          /\ shutdown_timer' = t
    /\ shutdown_lock' = 0
    /\ startup' = "armed"
    /\ lastActivity' = now
    /\ UNCHANGED <<now, model, last_request_time, kills, req, files,
                   leaked, arrivals, rin, rout>>

----------------------------------------------------------------------------
(* load_model, the startup hook *)

LoadModelOk ==
    /\ startup = "start"
    /\ model' = TRUE
    /\ startup' = "loaded"
    /\ UNCHANGED <<now, watchdogVars, req, files, leaked, arrivals,
                   rin, rout>>

\* a hook that arms the timer although the model failed to load
LoadModelFailStillSchedules ==
    /\ startup = "start"
    /\ startup' = "loaded"
    /\ UNCHANGED <<now, model, watchdogVars, req, files, leaked, arrivals,
                   rin, rout>>

\* whisper.load_model raises: the error is logged and re-raised
LoadModelFail ==
    /\ startup = "start"
    /\ startup' = "failed"
    /\ UNCHANGED <<now, model, watchdogVars, req, files, leaked, arrivals,
                   rin, rout>>

\* the application served without lifespan events: the hook never runs
LifespanOff ==
    /\ startup = "start"
    /\ startup' = "off"
    /\ UNCHANGED <<now, model, watchdogVars, req, files, leaked, arrivals,
                   rin, rout>>

Serving == startup \in {"armed", "off"}

----------------------------------------------------------------------------
(* reset_shutdown_timer *)

\* with shutdown_lock: entry
ResetAcquire(r) ==
    /\ req[r].pc = "reset"
    /\ shutdown_lock = 0
    /\ shutdown_lock' = r
    /\ req' = [req EXCEPT ![r].pc = "locked"]
    /\ UNCHANGED <<now, model, startup, last_request_time, shutdown_timer,
                   timers, kills, files, leaked, lastActivity, arrivals,
                   rin, rout>>

\* a reset that forgets to cancel the countdown
ResetBodyNoCancel(r) ==
    /\ req[r].pc = "locked"
    /\ shutdown_lock = r
    /\ last_request_time' = now
    /\ shutdown_lock' = 0
    /\ lastActivity' = now
    /\ req' = [req EXCEPT ![r].pc = "after_reset",
                          ![r].trace = Append(@, "reset")]
    /\ UNCHANGED <<now, model, startup, shutdown_timer, timers, kills, files,
                   leaked, arrivals, rin, rout>>

\* a reset that cancels and schedules a new countdown, also after a firing
ResetBodyRearm(r) ==
    /\ req[r].pc = "locked"
    /\ shutdown_lock = r
    /\ last_request_time' = now
    /\ LET cancelled == IF shutdown_timer # 0
                        THEN Cancel(timers, shutdown_timer) ELSE timers
           t == CHOOSE x \in FreeTimers : \A y \in FreeTimers : x <= y
       IN IF FreeTimers # {}
          THEN /\ timers' = [cancelled EXCEPT ![t] = NewTimer(IDLE_TIMEOUT)]
               /\ shutdown_timer' = t
          ELSE /\ timers' = cancelled
               /\ shutdown_timer' = shutdown_timer
    /\ shutdown_lock' = 0
    /\ lastActivity' = now
    /\ req' = [req EXCEPT ![r].pc = "after_reset",
                          ![r].trace = Append(@, "reset")]
    /\ UNCHANGED <<now, model, startup, kills, files, leaked, arrivals,
                   rin, rout>>

\* a reset that schedules a new countdown and leaves the old one running
ResetBodyExtraTimer(r) ==
    /\ req[r].pc = "locked"
    /\ shutdown_lock = r
    /\ last_request_time' = now
    /\ LET t == CHOOSE x \in FreeTimers : \A y \in FreeTimers : x <= y
       IN IF FreeTimers # {}
          THEN /\ timers' = [timers EXCEPT ![t] = NewTimer(IDLE_TIMEOUT)]
               /\ shutdown_timer' = t
          ELSE /\ timers' = timers
               /\ shutdown_timer' = shutdown_timer
    /\ shutdown_lock' = 0
    /\ lastActivity' = now
    /\ req' = [req EXCEPT ![r].pc = "after_reset",
                          ![r].trace = Append(@, "reset")]
    /\ UNCHANGED <<now, model, startup, kills, files, leaked, arrivals,
                   rin, rout>>

\* a reset that returns without releasing the lock
ResetBodyKeepsLock(r) ==
    /\ req[r].pc = "locked"
    /\ shutdown_lock = r
    /\ last_request_time' = now
    /\ timers' = IF shutdown_timer # 0
                 THEN Cancel(timers, shutdown_timer) ELSE timers
    /\ lastActivity' = now
    /\ req' = [req EXCEPT ![r].pc = "after_reset",
                          ![r].trace = Append(@, "reset")]
    /\ UNCHANGED <<now, model, startup, shutdown_timer, shutdown_lock, kills,
                   files, leaked, arrivals, rin, rout>>

\* the body of the with block, and the release of the lock
ResetBody(r) ==
    /\ req[r].pc = "locked"
    /\ shutdown_lock = r
    /\ last_request_time' = now
    /\ timers' = IF shutdown_timer # 0
                 THEN Cancel(timers, shutdown_timer) ELSE timers
    /\ shutdown_lock' = 0
    /\ lastActivity' = now
    /\ req' = [req EXCEPT ![r].pc = "after_reset",
                          ![r].trace = Append(@, "reset")]
    /\ UNCHANGED <<now, model, startup, shutdown_timer, kills, files,
                   leaked, arrivals, rin, rout>>

----------------------------------------------------------------------------
(* Requests *)

NoContent == [none |-> TRUE]

NoResp == [status |-> 0, detail |-> "", content |-> NoContent,
           unhandled |-> FALSE]

IdleReq == [pc |-> "idle", kind |-> "none", trace |-> <<>>,
            temp_file |-> FALSE, temp_file_path |-> FALSE,
            exc |-> "", failed |-> "none", unlinkFailed |-> FALSE,
            resp |-> NoResp]

\* a handler slot that holds no running handler
Free(r) == req[r].pc \in {"idle", "done"}

\* a handler that checks its input before it resets the timer
ArriveSkipsReset(r, kind) ==
    /\ Serving
    /\ Free(r)
    /\ \A q \in Reqs : q < r => ~Free(q)
    /\ arrivals < MaxRequests
    /\ arrivals' = arrivals + 1
    /\ req' = [req EXCEPT ![r] = [IdleReq EXCEPT
                                    !.pc = IF kind = "transcribe"
                                           THEN "after_reset" ELSE "reset",
                                    !.kind = kind]]
    /\ files' = files \ {r}
    /\ leaked' = IF r \in files THEN leaked + 1 ELSE leaked
    /\ UNCHANGED <<now, model, startup, watchdogVars, rin, rout>>

\* the framework hands a request to its handler (in the first free slot),
\* whose first statement is the call of reset_shutdown_timer; a temporary
\* file the slot's previous request left behind stays on disk
Arrive(r, kind) ==
    /\ Serving
    /\ Free(r)
    /\ \A q \in Reqs : q < r => ~Free(q)
    /\ arrivals < MaxRequests
    /\ arrivals' = arrivals + 1
    /\ req' = [req EXCEPT ![r] = [IdleReq EXCEPT !.pc = "reset",
                                                 !.kind = kind]]
    /\ files' = files \ {r}
    /\ leaked' = IF r \in files THEN leaked + 1 ELSE leaked
    /\ UNCHANGED <<now, model, startup, watchdogVars, rin, rout>>

\* GET /health
Health(r) ==
    /\ req[r].pc = "after_reset"
    /\ req[r].kind = "health"
    /\ req' = [req EXCEPT
                 ![r].pc = "done",
                 ![r].resp = [NoResp EXCEPT
                                !.status = 200,
                                !.content = [status |-> "ok",
                                             model_loaded |-> model,
                                             model_size |-> "medium"]]]
    /\ UNCHANGED <<now, model, startup, watchdogVars, files, leaked,
                   arrivals, rin, rout>>

HTTPException(status_code, detail) ==
    [NoResp EXCEPT !.status = status_code, !.detail = detail]

\* an exception that leaves the handler: the server answers 500 itself
Unhandled(name) ==
    [NoResp EXCEPT !.status = 500, !.detail = name, !.unhandled = TRUE]

Chars(w) ==
    CASE w = ".mp3" -> <<".", "m", "p", "3">>
      [] w = ".wav" -> <<".", "w", "a", "v">>
      [] w = ".webm" -> <<".", "w", "e", "b", "m">>
      [] w = ".ogg" -> <<".", "o", "g", "g">>
      [] w = ".flac" -> <<".", "f", "l", "a", "c">>
      [] w = ".m4a" -> <<".", "m", "4", "a">>
      [] w = ".mp4" -> <<".", "m", "p", "4">>

allowed_extensions ==
    {Chars(w) : w \in {".mp3", ".wav", ".webm", ".ogg", ".flac", ".m4a",
                       ".mp4"}}

\* the upload names tried; <<>> is a missing filename
Filenames ==
    { <<"a", ".", "m", "p", "3">>,
      <<"A", ".", "W", "a", "V">>,
      <<"c", "l", "i", "p", ".", "m", "o", "v">>,
      <<".", "m", "p", "3">>,
      <<"m", "p", "3">>,
      <<>> }

\* str.lower() on the letters of Filenames
LowerChar(c) ==
    CASE c = "A" -> "a"
      [] c = "W" -> "w"
      [] c = "V" -> "v"
      [] OTHER -> c

Lower(s) == [i \in 1..Len(s) |-> LowerChar(s[i])]

\* os.path.splitext(name)[1]: from the last dot on, unless that dot is
\* preceded by dots only
SplitExt(name) ==
    LET dots == {i \in 1..Len(name) : name[i] = "."}
        last == CHOOSE i \in dots : \A j \in dots : j <= i
    IN IF dots = {} THEN <<>>
       ELSE IF \A j \in 1..(last - 1) : name[j] = "." THEN <<>>
       ELSE SubSeq(name, last, Len(name))

FileExt(filename) == IF filename # <<>> THEN Lower(SplitExt(filename)) ELSE <<>>

\* an except clause that lets the exception through
ExceptClauseReraise(q, e) ==
    [q EXCEPT !.exc = e, !.resp = Unhandled(e)]

\* except Exception as e: raise HTTPException(500, f"Transcription failed: ...")
ExceptClause(q, e) ==
    [q EXCEPT !.exc = e,
              !.resp = HTTPException(500, "Transcription failed: " \o e)]

\* finally: if temp_file and os.path.exists(temp_file_path): os.unlink(...)
\* temp_file_path is a local that is bound only once the upload is saved;
\* reading it unbound raises UnboundLocalError out of the finally block, in
\* place of the response that was pending.  A failing unlink is logged.
FinallyClause(q, present, unlinkOk) ==
    IF ~q.temp_file THEN [q EXCEPT !.pc = "done"]
    ELSE IF ~q.temp_file_path
    THEN [q EXCEPT !.pc = "done", !.resp = Unhandled("UnboundLocalError")]
    ELSE IF present /\ ~unlinkOk
    THEN [q EXCEPT !.pc = "done", !.unlinkFailed = TRUE]
    ELSE [q EXCEPT !.pc = "done"]

\* the files left by the finally clause of request r
FilesAfterFinally(q, r, unlinkOk) ==
    IF q.temp_file /\ q.temp_file_path /\ unlinkOk THEN files \ {r} ELSE files

\* POST /transcribe from the return of reset_shutdown_timer to the first
\* await: the 503 and 400 checks and the creation of the temporary file
TranscribeStart(r, filename, createOk) ==
    /\ req[r].pc = "after_reset"
    /\ req[r].kind = "transcribe"
    /\ LET q == req[r]
           ready == [q EXCEPT !.trace = Append(@, "ready")]
           checked == [ready EXCEPT !.trace = Append(@, "ext")]
       IN IF ~model
          THEN /\ req' = [req EXCEPT ![r] =
                            [ready EXCEPT
                               !.pc = "done",
                               !.resp = HTTPException(503,
                                           "Whisper model not loaded")]]
               /\ files' = files
          ELSE IF FileExt(filename) \notin allowed_extensions
          THEN /\ req' = [req EXCEPT ![r] =
                            [checked EXCEPT
                               !.pc = "done",
                               !.resp = HTTPException(400,
                                   "Invalid file type. Allowed extensions")]]
               /\ files' = files
          ELSE IF createOk
          THEN /\ req' = [req EXCEPT ![r] =
                            [checked EXCEPT !.trace = Append(@, "temp"),
                                            !.temp_file = TRUE,
                                            !.pc = "read"]]
               /\ files' = files \cup {r}
          ELSE LET failed == ExceptClause([checked EXCEPT !.failed = "create"],
                                          "mkstemp failed")
               IN /\ req' = [req EXCEPT ![r] =
                               FinallyClause(failed, r \in files, TRUE)]
                  /\ files' = FilesAfterFinally(failed, r, TRUE)
    /\ UNCHANGED <<now, model, startup, watchdogVars, leaked, arrivals,
                   rin, rout>>

\* content = await file.read(); temp_file.write(content);
\* temp_file_path = temp_file.name; the inference call is entered
TranscribeReadUpload(r, ok) ==
    /\ req[r].pc = "read"
    /\ IF ok
       THEN /\ req' = [req EXCEPT ![r].temp_file_path = TRUE,
                                  ![r].pc = "infer"]
            /\ files' = files
       ELSE LET failed == ExceptClause([req[r] EXCEPT !.failed = "read"],
                                       "read failed")
            IN /\ req' = [req EXCEPT ![r] =
                            FinallyClause(failed, r \in files, TRUE)]
               /\ files' = FilesAfterFinally(failed, r, TRUE)
    /\ UNCHANGED <<now, model, startup, watchdogVars, leaked, arrivals,
                   rin, rout>>

InferenceErrors == {"CUDA out of memory", "bad audio"}

Seg(start, end, text) == [start |-> start, end |-> end, text |-> text]

Hello == <<" ", "h", "e", "l", "l", "o", " ">>
Bye == <<"b", "y", "e", "\n">>

\* the result model.transcribe returns to a request
ServiceResults ==
    { [text |-> Hello,
       segments |-> <<Seg(65500, 70250, Hello)>>,
       language |-> "en"] }

\* the values of response_format a request sends
Formats == {"json", "text", "verbose_json", "srt", "vtt", "xml"}

\* the response content of every result under every response_format, as
\* the dispatch on response_format computes it
ServiceResponses ==
    [result \in ServiceResults |->
       [response_format \in Formats |->
          FormatResponse(result, response_format)]]

\* result = model.transcribe(temp_file_path, **transcribe_options) returns
\* or raises; the response is chosen by response_format; the except and
\* finally clauses run
TranscribeInfer(r, result, response_format, error, unlinkOk) ==
    /\ req[r].pc = "infer"
    /\ LET q == [req[r] EXCEPT !.trace = Append(@, "inference")]
           outcome ==
               IF error = ""
               THEN [q EXCEPT
                       !.trace = Append(@, "render"),
                       !.resp = [NoResp EXCEPT
                                   !.status = 200,
                                   !.content =
                                     ServiceResponses[result][response_format]]]
               ELSE ExceptClause([q EXCEPT !.failed = "inference"], error)
       IN /\ req' = [req EXCEPT ![r] =
                       FinallyClause(outcome, r \in files, unlinkOk)]
          /\ files' = FilesAfterFinally(outcome, r, unlinkOk)
    /\ UNCHANGED <<now, model, startup, watchdogVars, leaked, arrivals,
                   rin, rout>>

----------------------------------------------------------------------------
(* The service *)

Tick ==
    /\ now < MaxTime
    /\ now' = now + 1
    /\ UNCHANGED <<model, startup, watchdogVars, req, files, leaked,
                   arrivals, rin, rout>>

NoRender == [op |-> "none", val |-> <<>>]
NoInput == [result |-> [text |-> <<>>, segments |-> <<>>, language |-> "en"],
            response_format |-> "verbose_json", seconds |-> 0]

Init ==
    /\ now = 0
    /\ model = FALSE
    /\ startup = "start"
    /\ last_request_time = 0
    /\ shutdown_timer = 0
    /\ shutdown_lock = 0
    /\ timers = [t \in TimerIds |-> NoTimer]
    /\ kills = 0
    /\ req = [r \in Reqs |-> IdleReq]
    /\ files = {}
    /\ leaked = 0
    /\ lastActivity = 0
    /\ arrivals = 0
    /\ rin = NoInput
    /\ rout = NoRender

Next ==
    \/ LoadModelOk
    \/ LoadModelFail
    \/ LifespanOff
    \/ ScheduleAcquire
    \/ ScheduleBody
    \/ Tick
    \/ \E t \in TimerIds : TimerWake(t)
    \/ \E t \in TimerIds : TimerShutdown(t)
    \/ \E r \in Reqs, kind \in {"health", "transcribe"} : Arrive(r, kind)
    \/ \E r \in Reqs : ResetAcquire(r)
    \/ \E r \in Reqs : ResetBody(r)
    \/ \E r \in Reqs : Health(r)
    \/ \E r \in Reqs, filename \in Filenames, createOk \in BOOLEAN :
            TranscribeStart(r, filename, createOk)
    \/ \E r \in Reqs, ok \in BOOLEAN : TranscribeReadUpload(r, ok)
    \/ \E r \in Reqs, result \in ServiceResults, response_format \in Formats,
          unlinkOk \in BOOLEAN :
            TranscribeInfer(r, result, response_format, "", unlinkOk)
    \/ \E r \in Reqs, result \in ServiceResults, error \in InferenceErrors,
          unlinkOk \in BOOLEAN :
            TranscribeInfer(r, result, "verbose_json", error, unlinkOk)

Spec == Init /\ [][Next]_vars

\* A thread that can take or leave the lock is scheduled: the steps of
\* reset_shutdown_timer and of schedule_shutdown are weakly fair.  Requests
\* and the passing of time are not.
FairSpec ==
    /\ Spec
    /\ \A r \in Reqs : WF_vars(ResetAcquire(r)) /\ WF_vars(ResetBody(r))
    /\ WF_vars(ScheduleAcquire)
    /\ WF_vars(ScheduleBody)

----------------------------------------------------------------------------
(* The renderers on their own: the input is drawn once, the calls apply    *)
(* the renderers to it.                                                    *)

MaxSegs == 2

\* seconds, in milliseconds
TimePool == {0, 1, 250, 1001, 1020, 2005, 65500, 70250, 3599750, 3599999,
             3600000, 359999999, 360000000, -250, -1500, -3600000}

SegPool == {Seg(0, 1020, Hello), Seg(65500, 70250, Hello),
            Seg(3599750, 3600000, Bye)}

SegLists == UNION {[1..n -> SegPool] : n \in 0..MaxSegs}

RenderResults ==
    [text : {<<>>, Hello}, segments : SegLists, language : {"en"}]

RenderFormats == Formats \cup {"SRT", ""}

RenderInputs ==
    [result : RenderResults, response_format : RenderFormats,
     seconds : TimePool]

InitRender ==
    /\ now = 0
    /\ model = FALSE
    /\ startup = "start"
    /\ last_request_time = 0
    /\ shutdown_timer = 0
    /\ shutdown_lock = 0
    /\ timers = [t \in TimerIds |-> NoTimer]
    /\ kills = 0
    /\ req = [r \in Reqs |-> IdleReq]
    /\ files = {}
    /\ leaked = 0
    /\ lastActivity = 0
    /\ arrivals = 0
    /\ rin \in RenderInputs
    /\ rout = NoRender

serviceVars == <<now, model, startup, watchdogVars, req, files, leaked,
                 arrivals>>

CallFormatResponse ==
    /\ rout' = [op |-> "respond",
                val |-> FormatResponse(rin.result, rin.response_format)]
    /\ UNCHANGED <<serviceVars, rin>>

CallGenerateSrt ==
    /\ rout' = [op |-> "srt", val |-> generate_srt(rin.result)]
    /\ UNCHANGED <<serviceVars, rin>>

CallGenerateVtt ==
    /\ rout' = [op |-> "vtt", val |-> generate_vtt(rin.result)]
    /\ UNCHANGED <<serviceVars, rin>>

CallFormatTimestampSrt ==
    /\ rout' = [op |-> "ts_srt", val |-> format_timestamp_srt(rin.seconds)]
    /\ UNCHANGED <<serviceVars, rin>>

CallFormatTimestampVtt ==
    /\ rout' = [op |-> "ts_vtt", val |-> format_timestamp_vtt(rin.seconds)]
    /\ UNCHANGED <<serviceVars, rin>>

NextRender ==
    \/ CallFormatResponse
    \/ CallGenerateSrt
    \/ CallGenerateVtt
    \/ CallFormatTimestampSrt
    \/ CallFormatTimestampVtt

SpecRender == InitRender /\ [][NextRender]_vars

----------------------------------------------------------------------------
(* Properties of the idle watchdog *)

InReset(r) == req[r].pc \in {"reset", "locked"}

\* the number of reset_shutdown_timer calls that have returned
ResetsReturned == arrivals - Cardinality({r \in Reqs : InReset(r)})

Firing(t) == timers[t].st \in {"running", "fired"}

\* C1: once the startup hook has armed the watchdog, a reset that returns
\* before any firing leaves exactly one pending countdown, and it runs for
\* the full idle timeout counted from that reset.
C1_OneFreshCountdownAfterReset ==
    (/\ startup = "armed"
     /\ ResetsReturned > 0
     /\ \A r \in Reqs : ~InReset(r)
     /\ \A t \in TimerIds : ~Firing(t))
    => /\ Cardinality(PendingTimers) = 1
       /\ \A t \in PendingTimers :
            timers[t].deadline = last_request_time + IDLE_TIMEOUT

\* C2: after startup and any finite sequence of requests, an idle gap of at
\* least the timeout ends with the termination request: the service is never
\* left with the timeout elapsed, no countdown that could still fire, and no
\* termination request issued.
C2_IdleGapEndsInShutdown ==
    (/\ startup = "armed"
     /\ \A r \in Reqs : ~InReset(r)
     /\ now - lastActivity >= IDLE_TIMEOUT
     /\ \A t \in TimerIds : timers[t].st \notin {"waiting", "running"})
    => kills = 1

\* C3: the watchdog fires only when a full idle timeout has passed since
\* the last arming or reset; requests that keep arriving at shorter
\* intervals keep it from firing.
C3_FiresOnlyAfterFullIdleGap ==
    \A t \in TimerIds : Firing(t) => timers[t].idleAtWake >= IDLE_TIMEOUT

C3_Witness ==
    /\ startup = "armed"
    /\ ResetsReturned >= 2
    /\ kills = 0
    /\ \E t \in TimerIds :
         /\ timers[t].st = "exited"
         /\ now > timers[t].deadline

\* C4: at most one termination request is ever issued, and once it has been
\* issued no countdown is pending again, whatever resets follow.
C4_AtMostOneTermination ==
    /\ kills <= 1
    /\ kills = 1 => PendingTimers = {}

C4_Witness ==
    /\ kills = 1
    /\ \E t \in TimerIds :
         /\ timers[t].st = "fired"
         /\ last_request_time > timers[t].firedAt

\* C5: when every concurrent reset has returned, at most one countdown is
\* pending, and no countdown fires before a full idle timeout has elapsed.
C5_ConcurrentResetsLeaveAtMostOne ==
    /\ (\A r \in Reqs : ~InReset(r)) => Cardinality(PendingTimers) <= 1
    /\ \A t \in TimerIds :
         Firing(t) => timers[t].idleAtWake >= IDLE_TIMEOUT

C5_Witness ==
    /\ startup = "armed"
    /\ Cardinality({r \in Reqs : req[r].pc = "after_reset"}) >= 2
    /\ Cardinality(PendingTimers) <= 1

----------------------------------------------------------------------------
(* Properties of the /transcribe handler *)

Has(seq, x) == \E i \in 1..Len(seq) : seq[i] = x

IsPrefix(a, b) == Len(a) <= Len(b) /\ SubSeq(b, 1, Len(a)) = a

StepOrder == <<"reset", "ready", "ext", "temp", "inference", "render">>

\* C6: a /transcribe request that created its temporary file ends with the
\* file deleted, on every exit path, unless the deletion itself failed.
C6_TempFileReleased ==
    \A r \in Reqs :
        (req[r].pc = "done" /\ req[r].temp_file /\ ~req[r].unlinkFailed)
            => r \notin files

\* C7: the steps of a /transcribe request run in the order reset, ready
\* check, extension check, temp file, inference, rendering; a request
\* answered 503 or 400 has reset the watchdog and has neither created a
\* temporary file nor run inference.
C7_StepOrder ==
    \A r \in Reqs :
        req[r].kind = "transcribe" =>
            /\ IsPrefix(req[r].trace, StepOrder)
            /\ req[r].temp_file => Has(req[r].trace, "temp")
            /\ req[r].resp.status = 503 => req[r].trace = <<"reset", "ready">>
            /\ req[r].resp.status = 400 =>
                   req[r].trace = <<"reset", "ready", "ext">>
            /\ req[r].resp.status \in {400, 503} =>
                   /\ ~req[r].temp_file
                   /\ r \notin files

C7_Witness ==
    \E r \in Reqs :
        /\ req[r].pc = "done"
        /\ req[r].resp.status = 400
        /\ Has(req[r].trace, "reset")

\* C8: an exception raised by the inference call ends the request with a
\* 500 response that carries the exception's message; it does not leave the
\* handler unhandled and no other response is given.
C8_InferenceErrorIs500 ==
    \A r \in Reqs :
        req[r].failed = "inference" =>
            /\ req[r].pc = "done"
            /\ req[r].exc \in InferenceErrors
            /\ req[r].resp = HTTPException(500,
                                "Transcription failed: " \o req[r].exc)
            /\ ~req[r].resp.unhandled

C8_Witness ==
    \E r \in Reqs :
        /\ req[r].pc = "done"
        /\ req[r].failed = "inference"
        /\ req[r].exc \in InferenceErrors
        /\ req[r].resp.status = 500

----------------------------------------------------------------------------
(* Properties of the renderers *)

KnownFormats == {"json", "text", "verbose_json", "srt", "vtt"}

\* C9: the format dispatch answers every response_format: json and text
\* give the text alone, verbose_json gives the result unchanged, and every
\* unknown value gives the same unchanged result.
C9_FormatDispatchTotal ==
    rout.op = "respond" =>
        /\ rin.response_format \in {"json", "text"} =>
               rout.val = [text |-> rin.result.text]
        /\ rin.response_format = "verbose_json" => rout.val = rin.result
        /\ rin.response_format \notin KnownFormats =>
               /\ rout.val = rin.result
               /\ rout.val = FormatResponse(rin.result, "verbose_json")

C9_Witness ==
    /\ rout.op = "respond"
    /\ rin.response_format = "xml"
    /\ rin.result.segments # <<>>
    /\ rout.val = rin.result

\* str.split("\n")
RECURSIVE SplitLines(_)
SplitLines(s) ==
    LET nls == {i \in 1..Len(s) : s[i] = "\n"}
        first == CHOOSE i \in nls : \A j \in nls : i <= j
    IN IF nls = {} THEN <<s>>
       ELSE <<SubSeq(s, 1, first - 1)>>
                \o SplitLines(SubSeq(s, first + 1, Len(s)))

RECURSIVE ExpectedVttLines(_)
ExpectedVttLines(segments) ==
    IF segments = <<>> THEN <<>>
    ELSE <<format_timestamp_vtt(Head(segments).start) \o Arrow
               \o format_timestamp_vtt(Head(segments).end),
           Strip(Head(segments).text), <<>>>>
             \o ExpectedVttLines(Tail(segments))

\* C10: generate_vtt gives the lines WEBVTT and a blank line, then for each
\* segment its time range, its stripped text and a blank line; for no
\* segments the output is WEBVTT followed by two newline characters.
C10_VttOutput ==
    rout.op = "vtt" =>
        /\ SplitLines(rout.val) =
               <<WEBVTT, <<>>>> \o ExpectedVttLines(rin.result.segments)
        /\ rin.result.segments = <<>> => rout.val = WEBVTT \o <<"\n", "\n">>

\* C11: generate_srt of N segments gives N caption blocks in input order,
\* the k-th made of the lines k, "start --> end", the stripped text and a
\* blank line; for no segments it gives the empty string.
C11_SrtBlocks ==
    rout.op = "srt" =>
        LET segments == rin.result.segments
            N == Len(segments)
            lines == SplitLines(rout.val)
        IN /\ N = 0 => rout.val = <<>>
           /\ N > 0 =>
                /\ Len(lines) = 4 * N
                /\ \A k \in 1..N :
                     /\ lines[4 * k - 3] = Digits(k)
                     /\ lines[4 * k - 2] =
                            format_timestamp_srt(segments[k].start) \o Arrow
                                \o format_timestamp_srt(segments[k].end)
                     /\ lines[4 * k - 1] = Strip(segments[k].text)
                     /\ lines[4 * k] = <<>>

C11_Witness ==
    /\ rout.op = "srt"
    /\ Len(rin.result.segments) = 2
    /\ rin.result.segments[1] # rin.result.segments[2]

\* C12: for a non-negative input the SRT and the VTT timestamp have the
\* same length and the same characters, except the separator before the
\* milliseconds: a comma in SRT, a period in VTT.
C12_StylesDifferInSeparatorOnly ==
    (rout.op \in {"ts_srt", "ts_vtt"} /\ rin.seconds >= 0) =>
        LET srt == IF rout.op = "ts_srt" THEN rout.val
                   ELSE format_timestamp_srt(rin.seconds)
            vtt == IF rout.op = "ts_vtt" THEN rout.val
                   ELSE format_timestamp_vtt(rin.seconds)
            sep == Len(srt) - 3
        IN /\ Len(srt) = Len(vtt)
           /\ srt[sep] = ","
           /\ vtt[sep] = "."
           /\ \A i \in 1..Len(srt) : i # sep => srt[i] = vtt[i]

C12_Witness ==
    /\ rout.op = "ts_vtt"
    /\ rin.seconds = 1020
    /\ rout.val[Len(rout.val) - 3] = "."

InvalidInput == <<"InvalidInput">>

\* C13: a negative number of seconds is rejected with InvalidInput; no
\* clock text is produced for it.
C13_NegativeRejected ==
    (rout.op \in {"ts_srt", "ts_vtt"} /\ rin.seconds < 0) =>
        rout.val = InvalidInput

TwoDigits(n) == ZeroFill(Digits(n), 2)
ThreeDigits(n) == ZeroFill(Digits(n), 3)

\* C18: for a non-negative offset of t whole milliseconds the fields are
\* hours = t div 3600000, minutes = (t mod 3600000) div 60000 < 60,
\* seconds = (t mod 60000) div 1000 < 60 and millis = t mod 1000, which add
\* up to t; hours, minutes and seconds are printed as exactly 2 digits and
\* millis as exactly 3, for every non-negative input.
C18_FieldsAndFixedWidth ==
    (rout.op \in {"ts_srt", "ts_vtt"} /\ rin.seconds >= 0) =>
        LET t == rin.seconds
            hours == t \div 3600000
            minutes == (t % 3600000) \div 60000
            secs == (t % 60000) \div 1000
            millis == t % 1000
            sep == IF rout.op = "ts_srt" THEN "," ELSE "."
        IN /\ minutes < 60
           /\ secs < 60
           /\ hours * 3600000 + minutes * 60000 + secs * 1000 + millis = t
           /\ Len(rout.val) = 12
           /\ rout.val = TwoDigits(hours) \o <<":">> \o TwoDigits(minutes)
                             \o <<":">> \o TwoDigits(secs) \o <<sep>>
                             \o ThreeDigits(millis)

----------------------------------------------------------------------------
(* Properties of the firing, the startup and the cleanup *)

\* C14: the firing is serialized with the resets: no termination request
\* is issued after a reset has returned unless a full idle timeout has
\* passed since that reset.
C14_NoFiringRightAfterReset ==
    [][(kills' > kills /\ ResetsReturned > 0)
          => now - last_request_time >= IDLE_TIMEOUT]_vars

PrimaryResponse(q) ==
    IF q.failed # "none"
    THEN HTTPException(500, "Transcription failed: " \o q.exc)
    ELSE q.resp

\* C15: the cleanup phase of /transcribe never raises out of the handler
\* and never replaces the response already determined: the 200 result, or
\* the 500 of a failure while reading the upload or running inference.
C15_CleanupKeepsPrimaryResponse ==
    \A r \in Reqs :
        (req[r].pc = "done" /\ req[r].kind = "transcribe") =>
            /\ ~req[r].resp.unhandled
            /\ req[r].resp = PrimaryResponse(req[r])
            /\ req[r].failed = "none" => req[r].resp.status \in {200, 400, 503}

\* C16: the watchdog is armed once, by the startup hook, after the model
\* has loaded: a countdown exists only when the model is set and the hook
\* has armed it, and none is ever scheduled when loading fails.
C16_ArmedOnceAfterModelLoad ==
    LET created == {t \in TimerIds : timers[t].st # "none"}
    IN /\ created # {} => model /\ startup = "armed"
       /\ Cardinality(created) <= 1
       /\ startup = "failed" => ~model /\ created = {}

C16_Witness ==
    /\ startup = "armed"
    /\ model
    /\ PendingTimers # {}

\* C17: the watchdog issues no termination request while a /transcribe
\* request is running inference, however long the inference lasts.
C17_NoFiringDuringInference ==
    [][kills' > kills => \A r \in Reqs : req[r].pc # "infer"]_vars

\* C19: the lock is held only by a thread inside the with block of a reset
\* or of the arming, and every reset_shutdown_timer call returns.
C19_EveryResetReturns ==
    /\ [](shutdown_lock # 0 =>
            \/ shutdown_lock = StartupId /\ startup = "scheduling"
            \/ shutdown_lock \in Reqs /\ req[shutdown_lock].pc = "locked")
    /\ \A r \in Reqs : InReset(r) ~> ~InReset(r)

C19_Witness ==
    \E r \in Reqs, q \in Reqs :
        /\ req[r].pc = "locked"
        /\ req[q].pc = "reset"
        /\ \E t \in TimerIds : timers[t].st \in {"waiting", "running"}

====
